---- MODULE Spec2Model ----
(***************************************************************************)
(* Snake game: the snake, the food, the statistics tracker and the main    *)
(* loop of SnakeGame (handle_input / update_game / render / clock.tick).   *)
(*                                                                         *)
(* One iteration of SnakeGame.run is modelled as the processing of the     *)
(* pending pygame events, one step per event of the `for event in          *)
(* pygame.event.get()` loop, followed by one step for update_game, render, *)
(* clock.tick and the `while self.running` test.                           *)
(***************************************************************************)
EXTENDS Integers, Sequences, FiniteSets, TLC

(***************************************************************************)
(* Bounds of the model.                                                    *)
(***************************************************************************)
GridWidth == 3
GridHeight == 3
MaxMoves == 4
MaxDirChanges == 3

(***************************************************************************)
(* Program constants.                                                      *)
(***************************************************************************)
max_attempts == 100
SpeedFloor == 50
ScoreIncrement == 10
TopScores == 10
HistoryCap == 1000
DefaultInitialSpeed == 150
DefaultSpeedIncrease == 5

\* The configuration _load_config falls back to (the part the loop reads).
DefaultConfig ==
    [initial_speed |-> DefaultInitialSpeed, speed_increase |-> DefaultSpeedIncrease]

\* Configurations whose initial interval is at or just above the floor.
ConfigsNearFloor ==
    {[initial_speed |-> i, speed_increase |-> DefaultSpeedIncrease] : i \in {50, 52, 55}}

VARIABLES
    \* Snake
    body, direction, grow_flag, total_moves, direction_changes,
    \* Food
    position, foods_eaten, attempts_exhausted,
    \* SnakeGame
    config, running, game_over, paused, score, game_speed,
    \* GameStats and the two files it persists to
    current_session, game_history, high_scores, stats_file, high_scores_file,
    \* control: place in SnakeGame.run
    pc,
    \* observation, for SpecObserved: the direction the last move() used, the
    \* direction and the direction-change counter when the current batch of
    \* events began, and the last direction passed to change_direction in it
    last_move_direction, start_direction, start_changes, last_command,
    \* spawn_food's loop counter (followed in SpecSpawn) and the state of the
    \* configuration file _load_config reads (followed in SpecConfig)
    attempts, config_file,
    \* the ticks update_game has executed since the last command (followed
    \* in SpecIdle)
    idle_ticks

snakeVars == <<body, direction, grow_flag, total_moves, direction_changes>>
foodVars == <<position, foods_eaten, attempts_exhausted>>
flagVars == <<running, game_over, paused, score, game_speed>>
statsVars == <<current_session, game_history, high_scores, stats_file, high_scores_file>>
obsVars == <<last_move_direction, start_direction, start_changes, last_command>>
gameVars == <<snakeVars, foodVars, config, flagVars, statsVars, pc>>
localVars == <<attempts, config_file, idle_ticks>>
vars == <<gameVars, obsVars, localVars>>

None == "None"

(***************************************************************************)
(* Direction and position                                                  *)
(***************************************************************************)
Direction == {"UP", "DOWN", "LEFT", "RIGHT"}

DeltaDiagonal(d) ==
    CASE d = "UP" -> <<1, -1>>
      [] d = "DOWN" -> <<0, 1>>
      [] d = "LEFT" -> <<-1, 0>>
      [] d = "RIGHT" -> <<1, 0>>

Delta(d) ==
    CASE d = "UP" -> <<0, -1>>
      [] d = "DOWN" -> <<0, 1>>
      [] d = "LEFT" -> <<-1, 0>>
      [] d = "RIGHT" -> <<1, 0>>

opposite_directions_rotated ==
    [d \in Direction |->
        CASE d = "UP" -> "LEFT"
          [] d = "LEFT" -> "DOWN"
          [] d = "DOWN" -> "RIGHT"
          [] d = "RIGHT" -> "UP"]

opposite_directions ==
    [d \in Direction |->
        CASE d = "UP" -> "DOWN"
          [] d = "DOWN" -> "UP"
          [] d = "LEFT" -> "RIGHT"
          [] d = "RIGHT" -> "LEFT"]

GridCells == {<<x, y>> : x \in 0..(GridWidth - 1), y \in 0..(GridHeight - 1)}

Range(s) == {s[i] : i \in 1..Len(s)}

Max(a, b) == IF a >= b THEN a ELSE b

(***************************************************************************)
(* Snake                                                                   *)
(***************************************************************************)
\* Snake.move: the body after one move in direction d with growth flag g.
MoveBodyAlwaysPops(b, d, g) ==
    LET new_head == <<b[1][1] + Delta(d)[1], b[1][2] + Delta(d)[2]>>
        inserted == <<new_head>> \o b
    IN  SubSeq(inserted, 1, Len(inserted) - 1)

MoveBodyStays(b, d, g) ==
    LET new_head == b[1]
        inserted == <<new_head>> \o b
    IN  IF ~g THEN SubSeq(inserted, 1, Len(inserted) - 1) ELSE inserted

MoveBody(b, d, g) ==
    LET new_head == <<b[1][1] + Delta(d)[1], b[1][2] + Delta(d)[2]>>
        inserted == <<new_head>> \o b
    IN  IF ~g THEN SubSeq(inserted, 1, Len(inserted) - 1) ELSE inserted

\* Snake.change_direction: whether new_direction is accepted.
DirectionAccepted(cur, new_direction) == new_direction # opposite_directions[cur]

\* Snake.change_direction, as an action on the snake.
change_direction_counts_repeats(new_direction) ==
    IF DirectionAccepted(direction, new_direction)
    THEN /\ direction_changes' = direction_changes + 1
         /\ direction' = new_direction
    ELSE UNCHANGED <<direction, direction_changes>>

change_direction(new_direction) ==
    IF DirectionAccepted(direction, new_direction)
    THEN /\ direction_changes' =
                IF new_direction # direction THEN direction_changes + 1
                ELSE direction_changes
         /\ direction' = new_direction
    ELSE UNCHANGED <<direction, direction_changes>>

check_wall_collision_off_by_one(b, width, height) ==
    LET head_x == b[1][1]
        head_y == b[1][2]
    IN  head_x < 0 \/ head_x > width \/ head_y < 0 \/ head_y > height

check_wall_collision_ignores_top(b, width, height) ==
    LET head_x == b[1][1]
        head_y == b[1][2]
    IN  head_x < 0 \/ head_x >= width \/ head_y >= height

check_wall_collision(b, width, height) ==
    LET head_x == b[1][1]
        head_y == b[1][2]
    IN  head_x < 0 \/ head_x >= width \/ head_y < 0 \/ head_y >= height

check_self_collision_includes_head(b) ==
    \E i \in 1..Len(b) : b[i] = b[1]

check_self_collision_empty_slice(b) ==
    \E i \in (Len(b) + 1)..Len(b) : b[i] = b[1]

check_self_collision(b) ==
    \E i \in 2..Len(b) : b[i] = b[1]

(***************************************************************************)
(* Food                                                                    *)
(***************************************************************************)
\* Food.spawn_food: the outcomes of the retry loop, the random draws being
\* arbitrary cells of the grid.  A draw is rejected when it lies in
\* snake_body; after `attempts` rejected draws either a free cell is drawn
\* (attempts < max_attempts) or the loop is exhausted and (0,0) is taken.
SpawnOutcomes(snake_body) ==
    LET occupied == Range(snake_body) \cap GridCells
        free == GridCells \ Range(snake_body)
        rejected == IF occupied = {} THEN {0} ELSE 0..(max_attempts - 1)
    IN  {[position |-> p, attempts |-> a] : p \in free, a \in rejected}
        \cup
        (IF occupied = {} THEN {}
         ELSE {[position |-> <<0, 0>>, attempts |-> max_attempts]})

\* Food.spawn_food: the position it leaves, and whether the loop ended with
\* attempts >= max_attempts (the fallback).
spawn_food(snake_body) ==
    {[position |-> o.position, exhausted |-> (o.attempts >= max_attempts)] :
        o \in SpawnOutcomes(snake_body)}

\* Food.check_collision: whether the head is on the food.
FoodHitSameRow(snake_head) == snake_head[2] = position[2]

FoodHit(snake_head) == snake_head = position

(***************************************************************************)
(* GameStats                                                               *)
(***************************************************************************)
\* The wall clock (datetime.now()) is read as a logical time: one more than
\* the end time of the last session finalized, so the count of the sessions
\* finalized so far plus one.
ClockAfter(h) == IF h = <<>> THEN 1 ELSE h[Len(h)].end_time + 1

Now == ClockAfter(game_history)

\* GameStats.start_new_game, the clock reading t.
NewSession(t) ==
    [start_time |-> t, end_time |-> 0, score |-> 0, max_length |-> 1,
     duration_seconds |-> 0, total_moves |-> 0, direction_changes |-> 0,
     foods_eaten |-> 0]

\* GameStats.update_game_stats
UpdatedSessionKeepsLength(s, length, moves, changes, eaten, sc) ==
    [s EXCEPT !.score = sc,
              !.total_moves = moves,
              !.direction_changes = changes,
              !.foods_eaten = eaten]

UpdatedSession(s, length, moves, changes, eaten, sc) ==
    [s EXCEPT !.score = sc,
              !.max_length = Max(s.max_length, length),
              !.total_moves = moves,
              !.direction_changes = changes,
              !.foods_eaten = eaten]

\* GameStats.end_game: the session with end time and duration filled in.
FinalizedSessionCountsFatalMove(s, t) ==
    [s EXCEPT !.end_time = t, !.duration_seconds = t - s.start_time,
              !.total_moves = s.total_moves + 1]

FinalizedSession(s, t) ==
    [s EXCEPT !.end_time = t, !.duration_seconds = t - s.start_time]

\* The entry _update_high_scores derives; efficiency is the quotient
\* max_length / max(total_moves, 1), kept as <<numerator, denominator>>.
HighScoreEntry(s) ==
    [score |-> s.score, max_length |-> s.max_length,
     duration_seconds |-> s.duration_seconds, foods_eaten |-> s.foods_eaten,
     date |-> s.start_time,
     efficiency |-> <<s.max_length, Max(s.total_moves, 1)>>]

\* list.sort(key=score, reverse=True): a stable sort, equal scores keep their order.
RECURSIVE InsertByScoreNewFirst(_, _)
InsertByScoreNewFirst(sorted, e) ==
    IF sorted = <<>> THEN <<e>>
    ELSE IF Head(sorted).score > e.score
         THEN <<Head(sorted)>> \o InsertByScoreNewFirst(Tail(sorted), e)
         ELSE <<e>> \o sorted

RECURSIVE InsertByScore(_, _)
InsertByScore(sorted, e) ==
    IF sorted = <<>> THEN <<e>>
    ELSE IF Head(sorted).score >= e.score
         THEN <<Head(sorted)>> \o InsertByScore(Tail(sorted), e)
         ELSE <<e>> \o sorted

RECURSIVE SortByScoreDesc(_)
SortByScoreDesc(l) ==
    IF l = <<>> THEN <<>>
    ELSE InsertByScore(SortByScoreDesc(SubSeq(l, 1, Len(l) - 1)), l[Len(l)])

FirstN(l, n) == SubSeq(l, 1, IF Len(l) < n THEN Len(l) ELSE n)

LastNKeepsFirst(l, n) == SubSeq(l, 1, IF Len(l) < n THEN Len(l) ELSE n)

LastN(l, n) == SubSeq(l, IF Len(l) > n THEN Len(l) - n + 1 ELSE 1, Len(l))

\* GameStats._update_high_scores
UpdatedHighScores(hs, s) ==
    FirstN(SortByScoreDesc(Append(hs, HighScoreEntry(s))), TopScores)

(***************************************************************************)
(* SnakeGame                                                               *)
(***************************************************************************)
\* The events pygame.event.get() may deliver.
Events == {"QUIT", "K_ESCAPE", "K_SPACE", "K_r", "K_UP", "K_DOWN", "K_LEFT", "K_RIGHT"}

\* The movement keys of handle_input and the direction each requests.
KeyDirection ==
    [k \in {"K_UP", "K_w", "K_DOWN", "K_s", "K_LEFT", "K_a", "K_RIGHT", "K_d"} |->
        CASE k \in {"K_UP", "K_w"} -> "UP"
          [] k \in {"K_DOWN", "K_s"} -> "DOWN"
          [] k \in {"K_LEFT", "K_a"} -> "LEFT"
          [] k \in {"K_RIGHT", "K_d"} -> "RIGHT"]

\* _init_game_objects: the snake starts in the centre of the grid.
StartBody == << <<GridWidth \div 2, GridHeight \div 2>> >>

\* GameStats._load_game_history / _load_high_scores: the content of the file.
LoadFile(f) == f

RECURSIVE SumMoves(_)
SumMoves(h) == IF h = <<>> THEN 0 ELSE (Head(h).total_moves + 1) + SumMoves(Tail(h))

\* Moves made so far in this run of the program, over all its sessions
\* (a finalized record holds one move less than its snake made, and the
\* moves of a session that is over are those of its record).  The model
\* stops moving the snake after MaxMoves moves in all.
MovesMade ==
    IF game_over THEN SumMoves(game_history)
    ELSE total_moves + SumMoves(game_history)

\* SnakeGame.__init__, the configuration loaded being one of configs and
\* the two files of GameStats holding h and hs.
InitFrom(configs, h, hs) ==
    /\ config \in configs
    /\ body = StartBody
    /\ direction = "RIGHT"
    /\ grow_flag = FALSE
    /\ total_moves = 0
    /\ direction_changes = 0
    /\ foods_eaten = 0
    /\ \E o \in spawn_food(<<>>) :
          /\ position = o.position
          /\ attempts_exhausted = o.exhausted
    /\ stats_file = h
    /\ high_scores_file = hs
    /\ game_history = LoadFile(stats_file)
    /\ high_scores = LoadFile(high_scores_file)
    /\ current_session = NewSession(ClockAfter(LoadFile(h)))
    /\ running = TRUE
    /\ game_over = FALSE
    /\ paused = FALSE
    /\ score = 0
    /\ game_speed = config.initial_speed
    /\ pc = "input"
    /\ last_move_direction = None
    /\ start_direction = "RIGHT"
    /\ start_changes = 0
    /\ last_command = None
    /\ attempts = 0
    /\ idle_ticks = 0
    /\ config_file = IF config = DefaultConfig THEN "missing" ELSE "valid"

\* The first run of the program: neither file exists yet.
InitWith(configs) == InitFrom(configs, <<>>, <<>>)

Init == InitWith({DefaultConfig})

\* GameStats() followed by start_new_game: both files are loaded again.
NewGameStats ==
    /\ game_history' = LoadFile(stats_file)
    /\ high_scores' = LoadFile(high_scores_file)
    /\ current_session' = NewSession(ClockAfter(LoadFile(stats_file)))
    /\ UNCHANGED <<stats_file, high_scores_file>>

\* _init_game_objects: a new Snake, a new Food, a new GameStats (which loads
\* both files) and start_new_game.
InitGameObjects ==
    /\ body' = StartBody
    /\ direction' = "RIGHT"
    /\ grow_flag' = FALSE
    /\ total_moves' = 0
    /\ direction_changes' = 0
    /\ foods_eaten' = 0
    /\ \E o \in spawn_food(<<>>) :
          /\ position' = o.position
          /\ attempts_exhausted' = o.exhausted
    /\ NewGameStats

\* restart_game
restart_game_keeps_score ==
    /\ game_over' = FALSE
    /\ paused' = FALSE
    /\ game_speed' = config.initial_speed
    /\ InitGameObjects
    /\ UNCHANGED <<running, score>>

restart_game_sets_running ==
    /\ game_over' = FALSE
    /\ paused' = FALSE
    /\ score' = 0
    /\ game_speed' = config.initial_speed
    /\ InitGameObjects
    /\ running' = TRUE

restart_game ==
    /\ game_over' = FALSE
    /\ paused' = FALSE
    /\ score' = 0
    /\ game_speed' = config.initial_speed
    /\ InitGameObjects
    /\ UNCHANGED running

\* K_SPACE: `if not self.game_over: self.paused = not self.paused`
TogglePauseAlways == ~paused

TogglePause == IF ~game_over THEN ~paused ELSE paused

\* One event of handle_input's loop.
HandleEvent(e) ==
    /\ pc = "input"
    /\ UNCHANGED <<config, pc>>
    /\ IF e = "QUIT" \/ e = "K_ESCAPE"
       THEN /\ running' = FALSE
            /\ UNCHANGED <<snakeVars, foodVars, game_over, paused, score, game_speed,
                           statsVars>>
       ELSE IF e = "K_SPACE"
       THEN /\ paused' = TogglePause
            /\ UNCHANGED <<snakeVars, foodVars, running, game_over, score, game_speed,
                           statsVars>>
       ELSE IF e = "K_r" /\ game_over
       THEN restart_game
       ELSE IF ~paused /\ ~game_over /\ e \in DOMAIN KeyDirection
       THEN /\ change_direction(KeyDirection[e])
            /\ direction_changes' <= MaxDirChanges
            /\ UNCHANGED <<body, grow_flag, total_moves, foodVars, flagVars, statsVars>>
       ELSE UNCHANGED <<snakeVars, foodVars, flagVars, statsVars>>

\* GameStats.end_game with _update_high_scores and _save_data, the object
\* holding the history h, the high scores hs and the session s.
StatsEndGame(h, hs, s) ==
    IF s.start_time # 0
    THEN LET finalized == FinalizedSession(s, ClockAfter(h))
         IN  /\ current_session' = finalized
             /\ game_history' = Append(h, finalized)
             /\ high_scores' = UpdatedHighScores(hs, finalized)
             /\ stats_file' = LastN(Append(h, finalized), HistoryCap)
             /\ high_scores_file' = UpdatedHighScores(hs, finalized)
    ELSE UNCHANGED statsVars

\* SnakeGame.end_game
end_game ==
    /\ game_over' = TRUE
    /\ StatsEndGame(game_history, high_scores, current_session)

\* The speed after a food is eaten.
SpeedAfterFoodSlower(speed) ==
    IF speed > SpeedFloor THEN speed + config.speed_increase ELSE speed

SpeedAfterFood(speed) ==
    IF speed > SpeedFloor THEN speed - config.speed_increase ELSE speed

\* update_game past the paused / game_over test.
Tick ==
    LET moved == MoveBody(body, direction, grow_flag)
    IN  /\ body' = moved
        /\ total_moves' = total_moves + 1
        /\ UNCHANGED <<direction, direction_changes>>
        /\ IF check_wall_collision(moved, GridWidth, GridHeight)
           THEN /\ end_game
                /\ grow_flag' = FALSE
                /\ UNCHANGED <<foodVars, score, game_speed>>
           ELSE IF check_self_collision(moved)
           THEN /\ end_game
                /\ grow_flag' = FALSE
                /\ UNCHANGED <<foodVars, score, game_speed>>
           ELSE /\ IF FoodHit(moved[1])
                   THEN /\ foods_eaten' = foods_eaten + 1
                        /\ grow_flag' = TRUE
                        /\ score' = score + ScoreIncrement
                        /\ game_speed' = SpeedAfterFood(game_speed)
                        /\ \E o \in spawn_food(moved) :
                              /\ position' = o.position
                              /\ attempts_exhausted' = o.exhausted
                   ELSE /\ grow_flag' = FALSE
                        /\ UNCHANGED <<foodVars, score, game_speed>>
                /\ current_session' =
                       UpdatedSession(current_session, Len(moved), total_moves',
                                      direction_changes, foods_eaten', score')
                /\ UNCHANGED <<game_over, game_history, high_scores,
                               stats_file, high_scores_file>>

\* update_game returns at once when the game is paused or over.
UpdateSkippedNotPaused == game_over

UpdateSkippedOnlyPaused == paused

UpdateSkipped == paused \/ game_over

\* run: the `while self.running` test after an iteration; the loop is left
\* (pygame.quit) when the flag is false.
LoopTestIgnoresQuit == "input"

LoopTest == IF running THEN "input" ELSE "done"

\* The rest of an iteration of run once the events are processed:
\* update_game, render, clock.tick and the test of `while self.running`.
UpdateGame ==
    /\ pc = "input"
    /\ IF UpdateSkipped
       THEN UNCHANGED <<snakeVars, foodVars, game_over, score, game_speed, statsVars>>
       ELSE /\ MovesMade < MaxMoves
            /\ Tick
    /\ pc' = LoopTest
    /\ UNCHANGED <<config, running, paused>>

Next ==
    \/ \E e \in Events : HandleEvent(e) /\ UNCHANGED <<obsVars, localVars>>
    \/ UpdateGame /\ UNCHANGED <<obsVars, localVars>>

Spec == Init /\ [][Next]_vars

\* The same loop under configurations near the speed floor.
SpecNearFloor == InitWith(ConfigsNearFloor) /\ [][Next]_vars

(***************************************************************************)
(* The same program, observed: which direction each move() used, and what  *)
(* the snake's direction and counter were when the batch of events of the  *)
(* current iteration began.                                                *)
(***************************************************************************)
\* handle_input passes e to change_direction.
IsMovementCommand(e) == ~paused /\ ~game_over /\ e \in DOMAIN KeyDirection

ObserveEvent(e) ==
    IF e = "K_r" /\ game_over
    THEN /\ last_move_direction' = None
         /\ start_direction' = direction'
         /\ start_changes' = direction_changes'
         /\ last_command' = None
    ELSE /\ last_command' = IF IsMovementCommand(e) THEN KeyDirection[e] ELSE last_command
         /\ UNCHANGED <<last_move_direction, start_direction, start_changes>>

ObserveUpdate ==
    /\ last_move_direction' =
           IF total_moves' # total_moves THEN direction ELSE last_move_direction
    /\ start_direction' = direction'
    /\ start_changes' = direction_changes'
    /\ last_command' = None

NextObserved ==
    \/ \E e \in Events : HandleEvent(e) /\ ObserveEvent(e) /\ UNCHANGED localVars
    \/ UpdateGame /\ ObserveUpdate /\ UNCHANGED localVars

SpecObserved == Init /\ [][NextObserved]_vars

(***************************************************************************)
(* Properties                                                              *)
(***************************************************************************)
\* A step in which the snake moves (update_game reached snake.move()).
IsMove == total_moves' = total_moves + 1

\* The direction that results from applying the single command c to direction d.
ApplyOne(d, c) == IF c = None \/ c = opposite_directions[d] THEN d ELSE c

\* C1: the direction in which a move() advances the head is never the
\* opposite of the direction the preceding move() used, and a snake of
\* three or more segments never steps onto its own second segment.
C1_NoReversal ==
    [][IsMove =>
        /\ (last_move_direction # None =>
                direction # opposite_directions[last_move_direction])
        /\ (Len(body) >= 3 => body'[1] # body[2])]_vars

\* C2: the direction a tick's move() uses is the direction held when the
\* batch of events began with only the last movement command applied to it,
\* and the direction-change counter rose by at most 1 over the batch.
C2_LastWins ==
    [][IsMove =>
        /\ direction = ApplyOne(start_direction, last_command)
        /\ direction_changes <= start_changes + 1]_vars

\* C3: while the game is not over the food is on no cell of the snake body,
\* unless the last spawn exhausted its attempts and fell back to (0,0).
C3_FoodOffSnake ==
    ~game_over => (position \notin Range(body) \/ attempts_exhausted)

\* C4: with an initial interval of at least 50 and a positive step, the tick
\* interval game_speed is never below the floor of 50.
C4_SpeedFloor ==
    (config.initial_speed >= 50 /\ config.speed_increase > 0) => game_speed >= 50

\* C5 as stated: once a quit command has been received (running is false),
\* no step changes the snake, the food, the score, the tick interval, the
\* game_over flag or the session record and its persisted history.
C5_NoMutationAfterQuit ==
    [][~running =>
        UNCHANGED <<snakeVars, foodVars, game_over, score, game_speed, statsVars>>]_vars

\* C5 as amended: once a quit command has been received the running flag
\* stays false and the loop exits at the end of the current iteration; until
\* then the remaining events are still handled and update_game runs once
\* more, so a move of the snake or the end of the game after the quit is the
\* last step of the loop, and nothing changes after the exit.
C5_QuitEndsAfterIteration ==
    [][~running =>
        /\ ~running'
        /\ pc # "done"
        /\ ((IsMove \/ (game_over' /\ ~game_over)) => pc' = "done")]_vars

\* The loop has exited after a quit received before the first move, and the
\* iteration's update_game still moved the snake.
C5_Witness ==
    /\ pc = "done"
    /\ ~running
    /\ ~paused
    /\ ~game_over
    /\ game_history = <<>>
    /\ total_moves = 1

\* C6: the body always has at least one segment, and while the game is not
\* over no two segments are on the same cell.
C6_BodyNoDuplicates ==
    /\ Len(body) >= 1
    /\ (~game_over =>
            \A i, j \in 1..Len(body) : i # j => body[i] # body[j])

C6_Witness == ~game_over /\ Len(body) >= 3 /\ total_moves >= 3

\* C7: snake length, plus 1 when growth is pending, equals 1 plus the number
\* of foods eaten.
C7_GrowthPerFood ==
    Len(body) + (IF grow_flag THEN 1 ELSE 0) = 1 + foods_eaten

C7_Witness == foods_eaten = 2 /\ grow_flag /\ Len(body) = 2

\* C8: a move ends the game exactly when the new head is outside the grid
\* or on another segment, and on such a move the score, the tick interval,
\* the eaten counter and the food position are unchanged and the growth flag
\* is as move() left it (clear).
C8_CollisionEndsGame ==
    [][IsMove =>
        LET h == body'[1]
            outside == h[1] < 0 \/ h[1] >= GridWidth \/ h[2] < 0 \/ h[2] >= GridHeight
            on_self == \E i \in 2..Len(body') : body'[i] = h
        IN  /\ game_over' <=> (outside \/ on_self)
            /\ game_over' =>
                  /\ score' = score
                  /\ game_speed' = game_speed
                  /\ foods_eaten' = foods_eaten
                  /\ position' = position
                  /\ grow_flag' = FALSE]_vars

\* The game was ended by the head running into the body, inside the grid.
C8_Witness ==
    /\ game_over
    /\ body[1] \in GridCells
    /\ \E i \in 2..Len(body) : body[i] = body[1]

\* The game state a construction leaves (the food anywhere in the grid).
FreshGame ==
    /\ body' = << <<GridWidth \div 2, GridHeight \div 2>> >>
    /\ direction' = "RIGHT"
    /\ grow_flag' = FALSE
    /\ total_moves' = 0
    /\ direction_changes' = 0
    /\ foods_eaten' = 0
    /\ position' \in GridCells
    /\ score' = 0
    /\ game_speed' = config.initial_speed
    /\ paused' = FALSE
    /\ game_over' = FALSE
    /\ current_session'.max_length = 1
    /\ current_session'.score = 0
    /\ current_session'.total_moves = 0
    /\ current_session'.direction_changes = 0
    /\ current_session'.foods_eaten = 0
    /\ current_session'.end_time = 0

\* C9: the restart command changes nothing while the game is not over; in
\* GameOver it is the only step that leaves GameOver, and it leaves the game
\* state of a fresh construction.
C9_RestartOnlyInGameOver ==
    [][/\ (~game_over /\ HandleEvent("K_r")) => UNCHANGED gameVars
       /\ (game_over /\ HandleEvent("K_r")) => FreshGame
       /\ (game_over /\ ~game_over') => HandleEvent("K_r")]_vars

\* A restarted game: a finalized session is in the history and the game is
\* in its fresh state with the scores of the previous session gone.
C9_Witness ==
    /\ Len(game_history) = 1
    /\ game_history[1].score > 0
    /\ ~game_over
    /\ total_moves = 0
    /\ score = 0
    /\ current_session.start_time = 2

\* C10: a step that changes the paused flag changes nothing else; no step
\* taken while paused changes the snake, the food, the score, the tick
\* interval, the session record or game_over; the flag does not change in
\* GameOver, and paused and game_over are never both true.
C10_PauseFrame ==
    /\ [][/\ paused' # paused =>
                UNCHANGED <<snakeVars, foodVars, config, running, game_over, score,
                            game_speed, statsVars, pc>>
          /\ paused =>
                UNCHANGED <<snakeVars, foodVars, game_over, score, game_speed, statsVars>>
          /\ game_over => paused' = paused]_vars
    /\ [](~(paused /\ game_over))

\* A game paused in mid-play.
C10_Witness ==
    /\ paused
    /\ total_moves >= 2
    /\ foods_eaten >= 1
    /\ direction_changes >= 1

\* C11: a step that ends the game (game_over becomes true) appends the
\* finalized record of the session once to the history, folds it into the
\* high scores and saves both; no other step, in Playing, Paused or
\* GameOver, changes the history, the high scores or the files.
C11_RecordAppendedOnce ==
    [][IF game_over' /\ ~game_over
       THEN /\ current_session'.end_time # 0
            /\ game_history' = Append(game_history, current_session')
            /\ Len(game_history') = Len(game_history) + 1
            /\ \E i \in 1..Len(high_scores') :
                  /\ high_scores'[i].date = current_session'.start_time
                  /\ high_scores'[i].score = current_session'.score
            /\ stats_file' = game_history'
            /\ high_scores_file' = high_scores'
       ELSE UNCHANGED <<game_history, high_scores, stats_file, high_scores_file>>]_vars

\* Two sessions have ended, each with one record.
C11_Witness ==
    /\ game_over
    /\ Len(game_history) = 2
    /\ game_history[1].start_time = 1
    /\ game_history[2].start_time = 2

(***************************************************************************)
(* GameStats on its own: sessions of given scores are played one after the *)
(* other, each with the new GameStats that _init_game_objects makes.       *)
(***************************************************************************)
MaxSessions == 11

\* Final scores of the sessions played (multiples of the 10 points a food gives).
Scores == {50, 80, 120}

\* A session of final score sc from its start to its end: GameStats() and
\* start_new_game (_init_game_objects), update_game_stats with the last
\* values of the session, then end_game.
StatsSession(sc) ==
    LET h == LoadFile(stats_file)
        hs == LoadFile(high_scores_file)
        eaten == sc \div ScoreIncrement
    IN  /\ StatsEndGame(h, hs, UpdatedSession(NewSession(ClockAfter(h)),
                                             eaten + 1, eaten + 2, 1, eaten, sc))
        /\ UNCHANGED <<snakeVars, foodVars, config, flagVars, pc, obsVars, localVars>>

\* One initial state of the program is followed: the food is at the origin.
InitStats == InitFrom({DefaultConfig}, <<>>, <<>>) /\ position = <<0, 0>>

NextStats ==
    \E sc \in Scores : Len(game_history) < MaxSessions /\ StatsSession(sc)

SpecStats == InitStats /\ [][NextStats]_vars

ScoresOf(l) == [i \in 1..Len(l) |-> l[i].score]

\* C12: the high-score list has at most 10 entries, is sorted by score in
\* non-increasing order with equal scores in the order of their sessions,
\* every entry is the entry of a finalized session, and no session left out
\* of the list has a higher score than an entry of the list; sessions of
\* scores 50, 120, 80 give the list 120, 80, 50 and a history of length 3.
C12_HighScoresSorted ==
    /\ Len(high_scores) <= 10
    /\ Len(high_scores) = (IF Len(game_history) < 10 THEN Len(game_history) ELSE 10)
    /\ \A i, j \in 1..Len(high_scores) :
          i < j => \/ high_scores[i].score > high_scores[j].score
                   \/ /\ high_scores[i].score = high_scores[j].score
                      /\ high_scores[i].date < high_scores[j].date
    /\ \A i \in 1..Len(high_scores) : \E k \in 1..Len(game_history) :
          high_scores[i] = HighScoreEntry(game_history[k])
    /\ \A k \in 1..Len(game_history) :
          (\A i \in 1..Len(high_scores) : high_scores[i].date # game_history[k].start_time)
             => \A i \in 1..Len(high_scores) : high_scores[i].score >= game_history[k].score
    /\ ScoresOf(game_history) = <<50, 120, 80>>
          => ScoresOf(high_scores) = <<120, 80, 50>> /\ Len(game_history) = 3

\* Eleven sessions, the first three of scores 50, 120 and 80: the list is
\* full, holds equal scores, and the last session is left out of it though
\* its score equals that of the last entry.
C12_Witness ==
    /\ Len(game_history) = 11
    /\ SubSeq(ScoresOf(game_history), 1, 3) = <<50, 120, 80>>
    /\ Len(high_scores) = 10
    /\ high_scores[1].score = high_scores[2].score
    /\ high_scores[10].score = game_history[11].score
    /\ \A i \in 1..10 : high_scores[i].date # game_history[11].start_time

(***************************************************************************)
(* GameStats with a history file that earlier runs have filled up to the   *)
(* cap of _save_data.                                                      *)
(***************************************************************************)
MaxOverCap == 3

\* The history after n sessions of score 50, and the high scores that go
\* with it (the first ten of these sessions).
PreloadedHistory(n) ==
    [i \in 1..n |-> FinalizedSession(UpdatedSession(NewSession(i), 6, 7, 1, 5, 50), i)]

PreloadedHighScores(n) ==
    [i \in 1..(IF n < TopScores THEN n ELSE TopScores) |->
        HighScoreEntry(PreloadedHistory(n)[i])]

InitHistory ==
    \E n \in {HistoryCap - 1, HistoryCap} :
        /\ InitFrom({DefaultConfig}, PreloadedHistory(n), PreloadedHighScores(n))
        /\ position = <<0, 0>>

NextHistory ==
    \E sc \in Scores :
        /\ ClockAfter(LoadFile(stats_file)) <= HistoryCap + MaxOverCap
        /\ StatsSession(sc)

SpecHistory == InitHistory /\ [][NextHistory]_vars

\* The records of h are in order of completion, none missing between them.
InOrderOfCompletion(h) ==
    \A i \in 1..(Len(h) - 1) : h[i + 1].end_time = h[i].end_time + 1

\* C13 as stated: the history sequence of GameStats (the one
\* get_game_summary reads) holds at most 1000 records, in order of
\* completion.
C13_HistoryCapped ==
    /\ Len(game_history) <= HistoryCap
    /\ InOrderOfCompletion(game_history)

\* C13 amended: the history file holds at most 1000 records, the most
\* recently finalized ones in order of completion; the history sequence in
\* memory holds the file's records and may hold one record more, up to 1001.
C13_FileCapped ==
    /\ Len(stats_file) <= HistoryCap
    /\ Len(game_history) <= HistoryCap + 1
    /\ InOrderOfCompletion(game_history)
    /\ Len(stats_file) = (IF Len(game_history) < HistoryCap THEN Len(game_history)
                          ELSE HistoryCap)
    /\ \A i \in 1..Len(stats_file) :
          stats_file[i] = game_history[Len(game_history) - Len(stats_file) + i]

\* A session was finalized on a full file: the oldest record left the file
\* and the sequence in memory holds 1001 records.
C13_Witness ==
    /\ Len(game_history) = HistoryCap + 1
    /\ Len(stats_file) = HistoryCap
    /\ stats_file[1].end_time = 2
    /\ stats_file[HistoryCap] = current_session

(***************************************************************************)
(* Food.spawn_food draw by draw, the draws of random.randint being         *)
(* arbitrary cells of the grid.                                            *)
(***************************************************************************)
\* `if potential_position not in snake_body`
DrawAcceptedAlways(p, snake_body) == TRUE

DrawAccepted(p, snake_body) == p \notin Range(snake_body)

\* A snake lying over the whole grid, row after row in alternating sense.
FullPath ==
    [k \in 1..(GridWidth * GridHeight) |->
        LET row == (k - 1) \div GridWidth
            col == (k - 1) % GridWidth
        IN  <<IF row % 2 = 0 THEN col ELSE GridWidth - 1 - col, row>>]

\* The bodies spawn_food is given: none (the constructor), snakes of one and
\* two segments, and snakes over all cells and over all cells but one.
SpawnInputs ==
    {<<>>}
    \cup {<<c>> : c \in GridCells}
    \cup UNION {{<<c, d>> : d \in {<<c[1] + Delta(x)[1], c[2] + Delta(x)[2]>> :
                                        x \in Direction} \cap GridCells} :
                 c \in GridCells}
    \cup {FullPath, SubSeq(FullPath, 1, GridWidth * GridHeight - 1),
          SubSeq(FullPath, 2, GridWidth * GridHeight)}

\* The call spawn_food(snake_body) is entered: the food is still where it
\* was, under the head that ate it (at (0,0) in the constructor).
InitSpawn ==
    /\ body \in SpawnInputs
    /\ position = (IF body = <<>> THEN <<0, 0>> ELSE body[1])
    /\ attempts = 0
    /\ idle_ticks = 0
    /\ attempts_exhausted = FALSE
    /\ pc = "spawn"
    /\ config = DefaultConfig
    /\ config_file = "missing"
    /\ direction = "RIGHT"
    /\ grow_flag = (body # <<>>)
    /\ total_moves = 0
    /\ direction_changes = 0
    /\ foods_eaten = (IF body = <<>> THEN 0 ELSE 1)
    /\ running = TRUE
    /\ game_over = FALSE
    /\ paused = FALSE
    /\ score = 0
    /\ game_speed = config.initial_speed
    /\ stats_file = <<>>
    /\ high_scores_file = <<>>
    /\ game_history = <<>>
    /\ high_scores = <<>>
    /\ current_session = NewSession(1)
    /\ last_move_direction = None
    /\ start_direction = "RIGHT"
    /\ start_changes = 0
    /\ last_command = None

\* One pass of the loop: a draw p, accepted (position set, break) or
\* rejected (attempts += 1).
SpawnDrawNoCount(p) ==
    /\ pc = "spawn"
    /\ attempts < max_attempts
    /\ IF DrawAccepted(p, body)
       THEN /\ position' = p
            /\ attempts_exhausted' = FALSE
            /\ pc' = "spawn_done"
            /\ UNCHANGED attempts
       ELSE UNCHANGED <<position, attempts_exhausted, pc, attempts>>
    /\ UNCHANGED <<snakeVars, foods_eaten, config, flagVars, statsVars, obsVars, config_file, idle_ticks>>

SpawnDraw(p) ==
    /\ pc = "spawn"
    /\ attempts < max_attempts
    /\ IF DrawAccepted(p, body)
       THEN /\ position' = p
            /\ attempts_exhausted' = FALSE
            /\ pc' = "spawn_done"
            /\ UNCHANGED attempts
       ELSE /\ attempts' = attempts + 1
            /\ UNCHANGED <<position, attempts_exhausted, pc>>
    /\ UNCHANGED <<snakeVars, foods_eaten, config, flagVars, statsVars, obsVars, config_file, idle_ticks>>

\* The loop ends with attempts >= max_attempts: the fallback to (0, 0).
SpawnFallback ==
    /\ pc = "spawn"
    /\ attempts >= max_attempts
    /\ position' = <<0, 0>>
    /\ attempts_exhausted' = TRUE
    /\ pc' = "spawn_done"
    /\ UNCHANGED <<snakeVars, foods_eaten, config, flagVars, statsVars, obsVars, localVars>>

NextSpawn ==
    \/ \E p \in GridCells : SpawnDraw(p)
    \/ SpawnFallback

SpecSpawn == InitSpawn /\ [][NextSpawn]_vars

\* The food is on no cell of the body, or the fallback put it at (0, 0).
FoodFreeOrFallback ==
    \/ position \notin Range(body)
    \/ attempts_exhausted /\ position = <<0, 0>>

move_keeps_flag ==
    /\ body' = MoveBody(body, direction, grow_flag)
    /\ total_moves' = total_moves + 1
    /\ UNCHANGED <<grow_flag, direction, direction_changes>>

move ==
    /\ body' = MoveBody(body, direction, grow_flag)
    /\ grow_flag' = FALSE
    /\ total_moves' = total_moves + 1
    /\ UNCHANGED <<direction, direction_changes>>

\* Snake.grow
grow ==
    /\ grow_flag' = TRUE
    /\ UNCHANGED <<body, direction, total_moves, direction_changes>>

SnakeMove ==
    /\ total_moves < MaxMoves
    /\ move
    /\ UNCHANGED <<foodVars, config, flagVars, statsVars, pc, obsVars, localVars>>

SnakeGrow ==
    /\ grow
    /\ UNCHANGED <<foodVars, config, flagVars, statsVars, pc, obsVars, localVars>>

SnakeChangeDirection(d) ==
    /\ change_direction(d)
    /\ direction_changes' <= MaxDirChanges
    /\ UNCHANGED <<body, grow_flag, total_moves>>
    /\ UNCHANGED <<foodVars, config, flagVars, statsVars, pc, obsVars, localVars>>

\* One initial state of the program is followed: the food is at the origin.
InitSnake == InitFrom({DefaultConfig}, <<>>, <<>>) /\ position = <<0, 0>>

NextSnake ==
    \/ SnakeMove
    \/ SnakeGrow
    \/ \E d \in Direction : SnakeChangeDirection(d)

SpecSnake == InitSnake /\ [][NextSnake]_vars

\* C15: a move puts the head plus the delta of the direction at the front
\* and counts one move; with the grow flag clear it drops the tail, with the
\* flag set it keeps the tail and clears the flag, so that after grow (once
\* or more) the next move, and only that one, lengthens the body by one; no
\* other operation changes the body or clears the flag.
C15_MoveAndGrow ==
    [][LET new_head == <<body[1][1] + Delta(direction)[1],
                         body[1][2] + Delta(direction)[2]>>
       IN  /\ IsMove =>
                /\ body'[1] = new_head
                /\ \A i \in 2..Len(body') : body'[i] = body[i - 1]
                /\ Len(body') = Len(body) + (IF grow_flag THEN 1 ELSE 0)
                /\ grow_flag' = FALSE
           /\ ~IsMove =>
                /\ body' = body
                /\ total_moves' = total_moves
                /\ grow_flag => grow_flag'
           /\ SnakeGrow => grow_flag']_vars

\* Two moves that lengthened the snake and two that did not.
C15_Witness ==
    /\ total_moves = 4
    /\ Len(body) = 3
    /\ ~grow_flag

\* d is the direction opposite to cur: its delta is the negated delta.
IsReverse(cur, d) ==
    /\ Delta(d)[1] = 0 - Delta(cur)[1]
    /\ Delta(d)[2] = 0 - Delta(cur)[2]

\* C16: change_direction(d) is rejected (returns false, direction and
\* counter unchanged) when d is opposite to the current direction; any other
\* d is accepted (returns true), becomes the direction, and the counter goes
\* up by one iff d differs from the current direction; the body, the grow
\* flag and the move counter are never changed.
C16_ChangeDirection ==
    /\ [](\A d \in Direction :
             DirectionAccepted(direction, d) = ~IsReverse(direction, d))
    /\ [][\A d \in Direction : SnakeChangeDirection(d) =>
             /\ IsReverse(direction, d) =>
                   direction' = direction /\ direction_changes' = direction_changes
             /\ ~IsReverse(direction, d) =>
                   /\ direction' = d
                   /\ direction_changes' =
                         direction_changes + (IF d # direction THEN 1 ELSE 0)
             /\ body' = body
             /\ grow_flag' = grow_flag
             /\ total_moves' = total_moves]_vars

\* The snake was turned round by two accepted changes without moving.
C16_Witness ==
    /\ direction = "LEFT"
    /\ direction_changes = 2
    /\ total_moves = 0

\* C17: a snake of one or two segments never reports a self collision.
C17_ShortSnakeNoSelfCollision ==
    Len(body) <= 2 => ~check_self_collision(body)

\* A snake of two segments that was turned round and moved back over its
\* own track.
C17_Witness ==
    /\ Len(body) = 2
    /\ body[1] = StartBody[1]
    /\ total_moves = 4
    /\ direction = "LEFT"

C19_SpeedMonotone ==
    [][/\ game_speed' # game_speed =>
             \/ /\ IsMove
                /\ foods_eaten' = foods_eaten + 1
                /\ game_speed' < game_speed
             \/ /\ game_over /\ ~game_over'
                /\ game_speed' = config.initial_speed
       /\ game_over /\ ~game_over' => game_speed' = config.initial_speed]_vars

\* A session that ate food has ended and a restart has brought the interval
\* back to the initial value.
C19_Witness ==
    /\ ~game_over
    /\ Len(game_history) = 1
    /\ game_history[1].foods_eaten >= 1
    /\ game_speed = config.initial_speed
    /\ total_moves = 0

(***************************************************************************)
(* SnakeGame.__init__ with _load_config, over the states the configuration *)
(* file may be in.                                                         *)
(***************************************************************************)
\* The file at config_path: absent, not JSON text, bytes that are not text
\* in the encoding of open(), not readable (no permission, a directory),
\* JSON without the "game" section, or a complete configuration.
ConfigFiles ==
    {"missing", "invalid_json", "undecodable", "unreadable", "incomplete", "valid"}

\* The dictionary _load_config returns in its except clause.
DefaultSettings ==
    [game |-> [width |-> 800, height |-> 600, cell_size |-> 20,
               initial_speed |-> DefaultInitialSpeed,
               speed_increase |-> DefaultSpeedIncrease],
     data |-> [stats_file |-> "data/game_stats.json",
               high_scores_file |-> "data/high_scores.json"]]

\* A complete configuration file: a board of 3 x 3 cells.
ValidSettings ==
    [game |-> [width |-> 60, height |-> 60, cell_size |-> 20,
               initial_speed |-> 120, speed_increase |-> 10],
     data |-> [stats_file |-> "data/game_stats.json",
               high_scores_file |-> "data/high_scores.json"]]

IncompleteSettings == [features |-> [show_grid |-> TRUE]]

\* open(config_path, 'r') and json.load(f): the exception raised, or the
\* value parsed.
ReadConfig(file) ==
    CASE file = "missing" -> [exception |-> "FileNotFoundError"]
      [] file = "invalid_json" -> [exception |-> "JSONDecodeError"]
      [] file = "undecodable" -> [exception |-> "UnicodeDecodeError"]
      [] file = "unreadable" -> [exception |-> "PermissionError"]
      [] file = "incomplete" -> [exception |-> None, value |-> IncompleteSettings]
      [] file = "valid" -> [exception |-> None, value |-> ValidSettings]

\* `except (FileNotFoundError, json.JSONDecodeError)`
CaughtOnLoad == {"FileNotFoundError", "JSONDecodeError"}

\* SnakeGame._load_config
load_config(file) ==
    LET r == ReadConfig(file)
    IN  IF r.exception = None THEN r
        ELSE IF r.exception \in CaughtOnLoad
             THEN [exception |-> None, value |-> DefaultSettings]
             ELSE r

\* Before SnakeGame(config_path) is called no object exists; the variables
\* hold placeholders.
InitConfig ==
    /\ config_file \in ConfigFiles
    /\ pc = "construct"
    /\ config = [initial_speed |-> 0, speed_increase |-> 0]
    /\ body = <<>>
    /\ direction = "RIGHT"
    /\ grow_flag = FALSE
    /\ total_moves = 0
    /\ direction_changes = 0
    /\ position = <<0, 0>>
    /\ foods_eaten = 0
    /\ attempts_exhausted = FALSE
    /\ attempts = 0
    /\ idle_ticks = 0
    /\ running = FALSE
    /\ game_over = FALSE
    /\ paused = FALSE
    /\ score = 0
    /\ game_speed = 0
    /\ stats_file = <<>>
    /\ high_scores_file = <<>>
    /\ game_history = <<>>
    /\ high_scores = <<>>
    /\ current_session = NewSession(0)
    /\ last_move_direction = None
    /\ start_direction = "RIGHT"
    /\ start_changes = 0
    /\ last_command = None

\* SnakeGame.__init__: an exception of _load_config, or the KeyError of
\* self.config['game'], leaves the constructor; otherwise the game objects
\* are made on the grid the configuration gives and the game is Playing.
Construct ==
    /\ pc = "construct"
    /\ LET loaded == load_config(config_file)
       IN  IF loaded.exception # None \/ "game" \notin DOMAIN loaded.value
           THEN /\ pc' = "raised"
                /\ UNCHANGED <<snakeVars, foodVars, config, flagVars, statsVars>>
           ELSE LET game == loaded.value.game
                    grid_width == game.width \div game.cell_size
                    grid_height == game.height \div game.cell_size
                IN  /\ config' = [initial_speed |-> game.initial_speed,
                                  speed_increase |-> game.speed_increase]
                    /\ body' = << <<grid_width \div 2, grid_height \div 2>> >>
                    /\ direction' = "RIGHT"
                    /\ grow_flag' = FALSE
                    /\ total_moves' = 0
                    /\ direction_changes' = 0
                    /\ foods_eaten' = 0
                    /\ position' \in (0..(grid_width - 1)) \X (0..(grid_height - 1))
                    /\ attempts_exhausted' = FALSE
                    /\ NewGameStats
                    /\ running' = TRUE
                    /\ game_over' = FALSE
                    /\ paused' = FALSE
                    /\ score' = 0
                    /\ game_speed' = game.initial_speed
                    /\ pc' = "input"
    /\ UNCHANGED <<obsVars, localVars>>

NextConfig == Construct

SpecConfig == InitConfig /\ [][NextConfig]_vars

\* The failures of loading the configuration: the file cannot be opened,
\* read as text or parsed.
LoadFailures == {"missing", "invalid_json", "undecodable", "unreadable"}

\* C20: when loading the configuration fails the constructor does not fail:
\* the defaults are used (a 40 x 30 grid from 800 x 600 at 20 per cell, tick
\* interval 150, step 5) and the game starts Playing.
C20_DefaultsOnLoadFailure ==
    (pc # "construct" /\ config_file \in LoadFailures) =>
        /\ pc = "input"
        /\ config = [initial_speed |-> 150, speed_increase |-> 5]
        /\ body = << <<20, 15>> >>
        /\ position \in (0..39) \X (0..29)
        /\ game_speed = 150
        /\ score = 0
        /\ running /\ ~game_over /\ ~paused

\* C21: the opposite relation of change_direction is defined on each of the
\* four directions, gives another direction, the only one whose delta is
\* the negated delta, and applied twice gives the direction back; so it
\* does for the direction the snake has in every reachable state.
C21_OppositeInvolution ==
    /\ DOMAIN opposite_directions = Direction
    /\ \A d \in Direction :
          /\ opposite_directions[d] \in Direction \ {d}
          /\ Delta(opposite_directions[d])[1] + Delta(d)[1] = 0
          /\ Delta(opposite_directions[d])[2] + Delta(d)[2] = 0
          /\ \A e \in Direction :
                (Delta(e)[1] + Delta(d)[1] = 0 /\ Delta(e)[2] + Delta(d)[2] = 0)
                   => e = opposite_directions[d]
          /\ opposite_directions[opposite_directions[d]] = d
    /\ direction \in DOMAIN opposite_directions
    /\ opposite_directions[opposite_directions[direction]] = direction

\* change_direction has used the relation for three accepted changes on a
\* snake that has not moved, which points up again.
C21_Witness ==
    /\ direction = "UP"
    /\ direction_changes = 3
    /\ total_moves = 0
    /\ ~grow_flag

\* spawn_food with its loop running on: a pass of the loop that can be
\* taken is taken in the end.
SpecSpawnFair == InitSpawn /\ [][NextSpawn]_vars /\ WF_vars(NextSpawn)

\* C22: spawn_food ends, for every body including one over the whole grid,
\* after at most 100 draws (the rejected ones, and the accepted one if
\* there is one), and leaves the food inside the grid.
C22_SpawnTerminates ==
    /\ [](/\ attempts <= 100
          /\ pc = "spawn_done" =>
                /\ attempts + (IF attempts_exhausted THEN 0 ELSE 1) <= 100
                /\ position[1] \in 0..(GridWidth - 1)
                /\ position[2] \in 0..(GridHeight - 1))
    /\ <>(pc = "spawn_done")

\* The loop ended by exhaustion on a snake over the whole grid.
C22_Witness ==
    /\ pc = "spawn_done"
    /\ Range(body) = GridCells
    /\ attempts = 100
    /\ position = <<0, 0>>

\* C23: max_length of the session record never decreases within a session
\* (only a restart starts a new record), and after the stats update of a
\* tick that does not end the game it is the greater of its value before
\* and the length of the snake, so at least the snake's length; as the
\* record starts at 1 that is the greatest length seen at any update.
C23_MaxLengthRunningMax ==
    [][/\ ~(game_over /\ ~game_over') =>
             current_session'.max_length >= current_session.max_length
       /\ (IsMove /\ ~game_over') =>
             /\ current_session'.max_length >= Len(body')
             /\ current_session'.max_length \in {current_session.max_length, Len(body')}]_vars

\* The record holds a length of 3 reached by two growing moves.
C23_Witness ==
    /\ ~game_over
    /\ current_session.max_length = 3
    /\ Len(body) = 3
    /\ foods_eaten >= 2
    /\ total_moves = current_session.total_moves

\* C24: once quit has been processed the running flag stays false whatever
\* event is handled next, a restart included; a restart, a turn or a pause
\* toggle handled after the quit leaves the loop in its iteration, a move
\* made by the update_game of the iteration is followed by the exit of the
\* loop, and after the exit no step is taken.
C24_ShutdownBounded ==
    /\ [][~running =>
            /\ ~running'
            /\ pc = "input"
            /\ (game_over /\ ~game_over') => pc' = "input"
            /\ (direction' # direction \/ paused' # paused) => pc' = "input"
            /\ IsMove => pc' = "done"
            /\ pc' \in {"input", "done"}]_vars
    /\ [](pc = "done" => ~running)

\* The loop has exited after a quit and a restart handled in one batch: the
\* new session has made the one move of the last update_game.
C24_Witness ==
    /\ pc = "done"
    /\ ~running
    /\ ~game_over
    /\ Len(game_history) = 1
    /\ total_moves = 1

\* C25: the record finalized by the tick that ends the game holds the live
\* score and eaten count, a total_moves one less than the snake's counter,
\* and the max_length and direction_changes the record had before that tick;
\* these are the values of the last tick that did not end the game, since
\* such a tick writes the snake's length and counters into the record and
\* no step between ticks, other than a restart, touches the record.
C25_RecordLagsFatalTick ==
    [][/\ (game_over' /\ ~game_over) =>
             /\ current_session'.score = score'
             /\ current_session'.foods_eaten = foods_eaten'
             /\ current_session'.total_moves = total_moves' - 1
             /\ current_session'.max_length = current_session.max_length
             /\ current_session'.direction_changes = current_session.direction_changes
             /\ game_history'[Len(game_history')] = current_session'
       /\ (IsMove /\ ~game_over') =>
             /\ current_session'.total_moves = total_moves'
             /\ current_session'.max_length = Len(body')
             /\ current_session'.direction_changes = direction_changes'
             /\ current_session'.score = score'
             /\ current_session'.foods_eaten = foods_eaten'
       /\ (~IsMove /\ ~(game_over /\ ~game_over')) =>
             current_session' = current_session]_vars

\* The fatal move lengthened the snake and followed two turns: the record
\* holds neither.
C25_Witness ==
    /\ game_over
    /\ Len(body) = current_session.max_length + 1
    /\ direction_changes = current_session.direction_changes + 2
    /\ total_moves = current_session.total_moves + 1
    /\ current_session.score = score

\* C26: while the game is not over every segment of the body is inside the
\* grid; when the game is over with the head outside the grid (a wall
\* collision) the head is one cell beyond one edge, in line with the grid,
\* and every other segment is inside.
C26_SegmentsInsideGrid ==
    /\ ~game_over =>
          \A i \in 1..Len(body) :
             /\ 0 <= body[i][1] /\ body[i][1] < GridWidth
             /\ 0 <= body[i][2] /\ body[i][2] < GridHeight
    /\ (game_over /\ body[1] \notin GridCells) =>
          /\ \A i \in 2..Len(body) : body[i] \in GridCells
          /\ \/ /\ body[1][1] \in {-1, GridWidth}
                /\ body[1][2] \in 0..(GridHeight - 1)
             \/ /\ body[1][2] \in {-1, GridHeight}
                /\ body[1][1] \in 0..(GridWidth - 1)

\* The game ended on the top wall with a snake of two segments.
C26_Witness ==
    /\ game_over
    /\ Len(body) = 2
    /\ body[1][2] = -1
    /\ body[2][2] = 0

\* The distance between two cells, counted in unit steps along the axes.
StepsApart(p, q) ==
    (IF p[1] >= q[1] THEN p[1] - q[1] ELSE q[1] - p[1])
    + (IF p[2] >= q[2] THEN p[2] - q[2] ELSE q[2] - p[2])

\* C27: the body is a connected path: any two consecutive segments are one
\* unit step apart along one axis.
C27_BodyConnected ==
    \A i \in 1..(Len(body) - 1) : StepsApart(body[i], body[i + 1]) = 1

\* A snake of three segments that has turned a corner.
C27_Witness ==
    /\ Len(body) = 3
    /\ body[1][1] # body[3][1]
    /\ body[1][2] # body[3][2]

(***************************************************************************)
(* The game loop with the ticks counted that update_game has executed      *)
(* since the last command handled.                                         *)
(***************************************************************************)
\* handle_input takes an event: a command has arrived, unless the event is
\* the restart key in a game that is not over, which is ignored.
IdleEvent(e) ==
    /\ HandleEvent(e)
    /\ idle_ticks' = (IF e = "K_r" /\ ~game_over THEN idle_ticks ELSE 0)
    /\ UNCHANGED <<obsVars, attempts, config_file>>

\* update_game moves the snake unless the game is paused or over.
IdleUpdate ==
    /\ UpdateGame
    /\ idle_ticks' = (IF UpdateSkipped THEN idle_ticks ELSE idle_ticks + 1)
    /\ UNCHANGED <<obsVars, attempts, config_file>>

NextIdle ==
    \/ \E e \in Events : IdleEvent(e)
    \/ IdleUpdate

SpecIdle == Init /\ [][NextIdle]_vars

\* C28: when max(grid_width, grid_height) ticks have executed in a row with
\* no command between them the game is over; so a game left alone is never
\* still being played after that many ticks.
C28_IdleSessionEnds ==
    /\ idle_ticks <= Max(GridWidth, GridHeight)
    /\ idle_ticks >= Max(GridWidth, GridHeight) => game_over

\* A snake turned round next to the top wall crossed the whole grid and
\* left it by the bottom wall on the last of as many ticks as the grid has
\* rows.
C28_Witness ==
    /\ game_over
    /\ idle_ticks = GridHeight
    /\ direction = "DOWN"
    /\ body[1][2] = GridHeight

\* C29: in GameOver a step that is not the restart (a tick, a movement
\* command, a pause toggle, a quit) leaves the snake, the food, the score,
\* the tick interval, the paused and game_over flags and the session record
\* with the history unchanged, and quit only clears the running flag; so
\* only the restart brings the game out of GameOver, and only the quit ends
\* the loop.
C29_GameOverFrame ==
    [][game_over =>
          /\ ~game_over' => (/\ game_history' = stats_file
                             /\ current_session'.end_time = 0
                             /\ total_moves' = 0
                             /\ pc' = pc)
          /\ game_over' =>
                /\ UNCHANGED <<snakeVars, foodVars, score, game_speed, paused, statsVars>>
                /\ running' # running => ~running'
                /\ pc' # pc => ~running]_vars

\* The loop was left by a quit in GameOver; the snake lies where the wall
\* collision left it.
C29_Witness ==
    /\ game_over
    /\ pc = "done"
    /\ ~paused
    /\ body[1] \notin GridCells
    /\ Len(game_history) = 1

====
